---- MODULE Spec2Model ----
(***************************************************************************)
(* Host-based reverse proxy of code-server with file-derived public ports. *)
(*                                                                         *)
(*   src/unnamed/part_002  the domain-proxy router: maybeProxy, router.all *)
(*                         (HTTP) and wsRouter.ws (WebSocket upgrade)      *)
(*   src/unnamed/part_004  class PublicPorts: the watcher callbacks        *)
(*                         (putFile, deleteFile), the parser and the       *)
(*                         merged directory behind getPublicPort           *)
(*                                                                         *)
(* Strings of the program are TLA+ strings; a character is a string of     *)
(* length one.                                                             *)
(***************************************************************************)
EXTENDS Integers, Sequences, FiniteSets, TLC

(***************************************************************************)
(* String primitives of JavaScript used by the program.                    *)
(***************************************************************************)

\* s[i] as a one-character string (1-based).
Char(s, i) == SubSeq(s, i, i)

\* String.prototype.substring(from0, to0) with 0-based, end-exclusive indices.
Substring(s, from0, to0) == SubSeq(s, from0 + 1, to0)

\* String.prototype.indexOf(sub): the 0-based index of the first occurrence, -1 if none.
IndexOf(s, sub) ==
    LET hits == {i \in 1..(Len(s) - Len(sub) + 1) : SubSeq(s, i, i + Len(sub) - 1) = sub}
    IN  IF hits = {} THEN -1
        ELSE (CHOOSE i \in hits : \A j \in hits : i <= j) - 1

\* String.prototype.includes(sub).
Includes(s, sub) == IndexOf(s, sub) # -1

\* String.prototype.startsWith(prefix).
StartsWith(s, prefix) ==
    Len(prefix) <= Len(s) /\ SubSeq(s, 1, Len(prefix)) = prefix

\* String.prototype.split(sep) for a one-character separator: "a.b" -> <<"a","b">>,
\* "" -> <<"">>, ".a" -> <<"","a">>.
RECURSIVE Split(_, _)
Split(s, sep) ==
    LET idx == IndexOf(s, sep)
    IN  IF idx = -1 THEN <<s>>
        ELSE <<Substring(s, 0, idx)>> \o Split(Substring(s, idx + 1, Len(s)), sep)

\* Array.prototype.join(sep): the empty array joins to "".
RECURSIVE Join(_, _)
Join(parts, sep) ==
    IF parts = <<>> THEN ""
    ELSE IF Len(parts) = 1 THEN parts[1]
    ELSE parts[1] \o sep \o Join(Tail(parts), sep)

\* Array.prototype.includes(x).
ArrayIncludes(arr, x) == \E i \in 1..Len(arr) : arr[i] = x

Digits == {"0", "1", "2", "3", "4", "5", "6", "7", "8", "9"}

LowerLetters ==
    {"a", "b", "c", "d", "e", "f", "g", "h", "i", "j", "k", "l", "m",
     "n", "o", "p", "q", "r", "s", "t", "u", "v", "w", "x", "y", "z"}

\* RegExp(/^[0-9]+$/i).test(s)
MatchesPortRegex(s) == Len(s) >= 1 /\ \A i \in 1..Len(s) : Char(s, i) \in Digits

\* RegExp(/^[a-z0-9]+$/).test(s)
MatchesAliasRegex(s) ==
    Len(s) >= 1 /\ \A i \in 1..Len(s) : Char(s, i) \in (Digits \cup LowerLetters)

(***************************************************************************)
(* Manifest files on disk, as yaml.load and portFileSchema classify them.  *)
(*   shape "syntaxError"  yaml.load throws                                 *)
(*   shape "nullDoc"      yaml.load gives null/undefined (an empty file)   *)
(*   shape "schemaError"  portFileSchema.validate reports an error         *)
(*                        (unknown key, version that is no string, ...)    *)
(*   shape "mapping"      a mapping accepted by the schema; field tells    *)
(*                        whether `ports` is absent, null or an array of   *)
(*                        strings, and ports holds the array.  The schema  *)
(*                        of `ports` is the alternatives [array of         *)
(*                        strings, any().allow(null)], and the second      *)
(*                        accepts every value: field "mixed" is an array   *)
(*                        with an entry that is no string (`- 8000`), its  *)
(*                        string entries in ports, and field "scalar" is   *)
(*                        a value that is no array (`ports: 8000`)         *)
(*   shape "unreadable"   the file exists and fs.readFileSync throws       *)
(* NoFile is a path with no file: fs.readFileSync throws ENOENT.           *)
(***************************************************************************)
NoFile == [shape |-> "noFile", field |-> "absent", ports |-> <<>>]

SyntaxErrorDoc == [shape |-> "syntaxError", field |-> "absent", ports |-> <<>>]

SchemaErrorDoc == [shape |-> "schemaError", field |-> "absent", ports |-> <<>>]

NullDoc == [shape |-> "nullDoc", field |-> "absent", ports |-> <<>>]

NullPortsDoc == [shape |-> "mapping", field |-> "null", ports |-> <<>>]

NoPortsDoc == [shape |-> "mapping", field |-> "absent", ports |-> <<>>]

PortsDoc(entries) == [shape |-> "mapping", field |-> "array", ports |-> entries]

MixedPortsDoc(entries) == [shape |-> "mapping", field |-> "mixed", ports |-> entries]

ScalarPortsDoc == [shape |-> "mapping", field |-> "scalar", ports |-> <<>>]

(***************************************************************************)
(* class PublicPorts: the parser.                                          *)
(***************************************************************************)

\* A PortFile object: `ports` is an array of strings, null, undefined, an array
\* with an entry that is no string ("mixed") or no array at all ("scalar"): kind;
\* the string entries of an array in ports.
PortFile(kind, entries) == [kind |-> kind, ports |-> entries]

EmptyPortFile == PortFile("array", <<>>)

\* A nullable result: [isNull |-> TRUE] stands for null.
Null == [isNull |-> TRUE, key |-> "", port |-> ""]

validatePort(port) == MatchesPortRegex(port)

validatePortOrAlias(portOrAlias) == MatchesAliasRegex(portOrAlias)

\* Mutant of parsePortOrPortMapping: alias mappings are rejected, only bare ports parse.
parsePortOrPortMapping_BareOnly(portOrMapping) ==
    IF Includes(portOrMapping, ":") \/ ~validatePort(portOrMapping) THEN Null
    ELSE [isNull |-> FALSE, key |-> portOrMapping, port |-> portOrMapping]

\* parsePortOrPortMapping: [portOrAlias, port], or null for an invalid entry.
parsePortOrPortMapping(portOrMapping) ==
    IF Includes(portOrMapping, ":")
    THEN LET res == Split(portOrMapping, ":")
         IN  IF ~validatePortOrAlias(res[1]) THEN Null
             ELSE IF ~validatePort(res[2]) THEN Null
             ELSE [isNull |-> FALSE, key |-> res[1], port |-> res[2]]
    ELSE IF ~validatePort(portOrMapping) THEN Null
         ELSE [isNull |-> FALSE, key |-> portOrMapping, port |-> portOrMapping]

\* Mutant of getPublicPortsFromFile: a file that cannot be read counts as empty.
getPublicPortsFromFile_ReadErrorEmpty(content) ==
    IF content.shape = "syntaxError"
    THEN [isNull |-> TRUE, file |-> EmptyPortFile]
    ELSE IF content.shape \in {"noFile", "unreadable", "schemaError", "nullDoc"}
    THEN [isNull |-> FALSE, file |-> EmptyPortFile]
    ELSE [isNull |-> FALSE,
          file |-> PortFile(IF content.field \in {"array", "null", "mixed", "scalar"}
                            THEN content.field
                            ELSE "undefined",
                            content.ports)]

\* getPublicPortsFromFile: the PortFile read from a file, or null ([isNull |-> TRUE])
\* when reading or yaml.load throws.
getPublicPortsFromFile(content) ==
    IF content.shape \in {"noFile", "unreadable", "syntaxError"}
    THEN [isNull |-> TRUE, file |-> EmptyPortFile]
    ELSE IF content.shape = "schemaError"
    THEN [isNull |-> FALSE, file |-> EmptyPortFile]
    ELSE IF content.shape = "nullDoc"
    THEN [isNull |-> FALSE, file |-> EmptyPortFile]
    ELSE [isNull |-> FALSE,
          file |-> PortFile(IF content.field \in {"array", "null", "mixed", "scalar"}
                            THEN content.field
                            ELSE "undefined",
                            content.ports)]

(***************************************************************************)
(* class PublicPorts: the merged directory.  portFiles is the object       *)
(* this.portFiles as the sequence of its own properties in insertion       *)
(* order, each [relPath, file].                                            *)
(***************************************************************************)

\* The inner forEach of mergePortFiles: push each port of `ports` not yet included.
RECURSIVE PushMissing(_, _)
PushMissing(acc, ports) ==
    IF ports = <<>> THEN acc
    ELSE PushMissing(IF ArrayIncludes(acc, Head(ports)) THEN acc
                     ELSE Append(acc, Head(ports)),
                     Tail(ports))

\* Mutant of MergeFrom: only the last tracked document is merged.
MergeFrom_LastOnly(acc, files) ==
    IF files = <<>> THEN acc
    ELSE IF files[Len(files)].file.kind = "array"
    THEN PushMissing(acc, files[Len(files)].file.ports)
    ELSE acc

\* The reduce of mergePortFiles over Object.values(this.portFiles).
RECURSIVE MergeFrom(_, _)
MergeFrom(acc, files) ==
    IF files = <<>> THEN acc
    ELSE MergeFrom(IF Head(files).file.kind = "array"
                   THEN PushMissing(acc, Head(files).file.ports)
                   ELSE acc,
                   Tail(files))

mergePortFiles(files) == PortFile("array", MergeFrom(<<>>, files))

\* prevValue[key] = port on the accumulator object.
SetProperty(obj, key, port) ==
    [k \in (DOMAIN obj) \cup {key} |-> IF k = key THEN port ELSE obj[k]]

EmptyObject == [k \in {} |-> ""]

\* Mutant of PortsFrom: a mapping also registers its target port as a key.
RECURSIVE PortsFrom_TargetAlsoPublic(_, _)
PortsFrom_TargetAlsoPublic(acc, entries) ==
    IF entries = <<>> THEN acc
    ELSE LET mapping == parsePortOrPortMapping(Head(entries))
         IN  PortsFrom_TargetAlsoPublic(
                 IF mapping.isNull THEN acc
                 ELSE SetProperty(SetProperty(acc, mapping.key, mapping.port),
                                  mapping.port, mapping.port),
                 Tail(entries))

\* The reduce of portFileToPorts: the own properties of the Ports object.
RECURSIVE PortsFrom(_, _)
PortsFrom(acc, entries) ==
    IF entries = <<>> THEN acc
    ELSE LET mapping == parsePortOrPortMapping(Head(entries))
         IN  PortsFrom(IF mapping.isNull THEN acc
                       ELSE SetProperty(acc, mapping.key, mapping.port),
                       Tail(entries))

portFileToPorts(file) ==
    IF file.kind # "array" THEN EmptyObject
    ELSE PortsFrom(EmptyObject, file.ports)

\* The property names every object literal inherits from Object.prototype.
ObjectPrototypeKeys ==
    {"constructor", "__proto__", "hasOwnProperty", "isPrototypeOf",
     "propertyIsEnumerable", "toLocaleString", "toString", "valueOf",
     "__defineGetter__", "__defineSetter__", "__lookupGetter__", "__lookupSetter__"}

\* What a template literal `${v}` renders for the inherited value of `key`.
InheritedToString(key) ==
    IF key = "__proto__" THEN "[object Object]"
    ELSE "function " \o (IF key = "constructor" THEN "Object" ELSE key)
         \o "() { [native code] }"

\* A value read back from the Ports object: kind "null", "port" (an own property,
\* a string) or "inherited" (a value found on Object.prototype); str is what a
\* template literal renders for it.
NullPort == [kind |-> "null", str |-> ""]

\* ports[portOrAlias] !== undefined ? ports[portOrAlias] : null
PropertyOrNull(ports, portOrAlias) ==
    IF portOrAlias \in DOMAIN ports
    THEN [kind |-> "port", str |-> ports[portOrAlias]]
    ELSE IF portOrAlias \in ObjectPrototypeKeys
    THEN [kind |-> "inherited", str |-> InheritedToString(portOrAlias)]
    ELSE NullPort

\* getPublicPorts once searchPath is defined.
getPublicPorts(files) == portFileToPorts(mergePortFiles(files))

(***************************************************************************)
(* The domain-proxy router.                                                *)
(***************************************************************************)

\* req.args["proxy-domain"]
ProxyDomains == <<"example.com">>

\* Mutant of maybeProxy: the rest of the hostname need only end in a proxy domain.
maybeProxy_SuffixMatch(host, separator) ==
    LET idx == IndexOf(host, ":")
        domain == IF idx # -1 THEN Substring(host, 0, idx) ELSE host
        sep == IF separator = "dash" THEN "-" ELSE "."
        parts == Split(domain, sep)
        port == Head(parts)
        proxyDomain == Join(Tail(parts), sep)
    IN  IF port = "" \/ ~\E k \in 1..Len(ProxyDomains) :
                            /\ Len(ProxyDomains[k]) <= Len(proxyDomain)
                            /\ SubSeq(proxyDomain,
                                      Len(proxyDomain) - Len(ProxyDomains[k]) + 1,
                                      Len(proxyDomain)) = ProxyDomains[k]
        THEN [matched |-> FALSE, port |-> ""]
        ELSE [matched |-> TRUE, port |-> port]

\* maybeProxy: [matched |-> FALSE] stands for undefined.  separator is
\* req.args["proxy-port-separator"] ("dash" or anything else).
maybeProxy(host, separator) ==
    LET idx == IndexOf(host, ":")
        domain == IF idx # -1 THEN Substring(host, 0, idx) ELSE host
        sep == IF separator = "dash" THEN "-" ELSE "."
        parts == Split(domain, sep)
        port == Head(parts)
        proxyDomain == Join(Tail(parts), sep)
    IN  IF port = "" \/ ~ArrayIncludes(ProxyDomains, proxyDomain)
        THEN [matched |-> FALSE, port |-> ""]
        ELSE [matched |-> TRUE, port |-> port]

\* /\/login\/?/.test(path)
MatchesLogin(path) == Includes(path, "/login")

\* Mutant of HttpUnauthorizedOutcome: the text/html test comes before the
\* static-asset test.
HttpUnauthorizedOutcome_HtmlFirst(path, method, accept) ==
    IF accept # "" /\ Includes(accept, "text/html")
    THEN IF MatchesLogin(path) THEN "next" ELSE "redirect"
    ELSE IF StartsWith(path, "/static/") /\ method = "GET" THEN "next"
    ELSE "unauthorized"

\* The branch of router.all taken when !isAuthenticated && !portIsPublic.
HttpUnauthorizedOutcome(path, method, accept) ==
    IF StartsWith(path, "/static/") /\ method = "GET" THEN "next"
    ELSE IF accept # "" /\ Includes(accept, "text/html")
    THEN IF MatchesLogin(path) THEN "next" ELSE "redirect"
    ELSE "unauthorized"

\* Mutant of HttpOutcome: only authentication opens the proxy, a public port does not.
HttpOutcome_AuthenticatedOnly(isAuthenticated, portIsPublic, path, method, accept) ==
    IF ~isAuthenticated
    THEN HttpUnauthorizedOutcome(path, method, accept)
    ELSE "proxy"

\* router.all after `await authenticated(req)`: what the handler ends in.
HttpOutcome(isAuthenticated, portIsPublic, path, method, accept) ==
    IF ~isAuthenticated /\ ~portIsPublic
    THEN HttpUnauthorizedOutcome(path, method, accept)
    ELSE "proxy"

\* Mutant of WsOutcome: only authentication opens the proxy, a public port does not.
WsOutcome_AuthenticatedOnly(isAuthenticated, portIsPublic) ==
    IF ~isAuthenticated THEN "unauthorized" ELSE "proxy"

\* wsRouter.ws after `await authenticated(req)`: what the handler ends in.
WsOutcome(isAuthenticated, portIsPublic) ==
    IF ~isAuthenticated /\ ~portIsPublic THEN "unauthorized" ELSE "proxy"

\* Mutant of ProxyTarget: the query string of the original URL is dropped.
ProxyTarget_PathOnly(mappedPort, originalUrl) ==
    "http://0.0.0.0:" \o mappedPort \o Split(originalUrl, "?")[1]

\* `http://0.0.0.0:${mappedPort}${req.originalUrl}`
ProxyTarget(mappedPort, originalUrl) == "http://0.0.0.0:" \o mappedPort \o originalUrl

\* req.originalUrl: the path and the query string as the client sent them.
OriginalUrl(path, query) == path \o query

\* req.baseUrl: the router is mounted at the root of the application.
BaseUrl == ""

\* normalize(url) of common/util: runs of "/" collapse to one "/" and a trailing
\* "/" is removed; the root path stays "/".
normalize(url) ==
    LET segs == SelectSeq(Split(url, "/"), LAMBDA seg : seg # "")
    IN  IF url = "" THEN ""
        ELSE IF segs = <<>> THEN "/"
        ELSE (IF StartsWith(url, "/") THEN "/" ELSE "") \o Join(segs, "/")

\* The `to` parameter of a redirect: [present |-> FALSE] is undefined.
NoTarget == [present |-> FALSE, str |-> ""]

\* to !== "/" ? to : undefined, with to = normalize(`${req.baseUrl}${req.path}`)
RedirectTo(baseUrl, path) ==
    LET to == normalize(baseUrl \o path)
    IN  IF to # "/" THEN [present |-> TRUE, str |-> to] ELSE NoTarget

\* One call a handler makes to end the request: next(), redirect(..., "login",
\* {to}), throw HttpError, proxy.web(...) or proxy.ws(...).
Call(fn, target) == [fn |-> fn, target |-> target]

(***************************************************************************)
(* State.                                                                  *)
(***************************************************************************)
VARIABLES
    proxyPortSeparator, \* req.args["proxy-port-separator"], the same for every request
    searchPath,         \* this.searchPath: [defined |-> FALSE] is undefined
    watcher,            \* this.watcher: "undefined", "open" or "closed"
    orphans,            \* running chokidar watchers this.watcher no longer refers to
    portFiles,          \* this.portFiles, own properties in insertion order
    disk,               \* the manifest files of the workspace tree, by relative path
    pending,            \* watcher events detected and not yet delivered, oldest first
    req,                \* the request being handled
    \* History variables: they record what happened and steer nothing.
    startWatchCalled,   \* startWatch has been called at least once
    lastRead,           \* per path, what the last add/change callback read
    reread,             \* the last callback was putFile reading the bytes it read before
    pristine,           \* no file has changed since startWatch was first called
    everClosed          \* endWatch has closed a watcher

vars == <<proxyPortSeparator, searchPath, watcher, orphans, portFiles, disk,
          pending, req, startWatchCalled, lastRead, reread, pristine, everClosed>>

watchVars == <<searchPath, watcher, orphans, portFiles, disk, pending,
               startWatchCalled, lastRead, reread, pristine, everClosed>>

\* Bounds of the model.
MaxPending == 2

MaxOrphans == 1

UndefinedPath == [defined |-> FALSE, path |-> ""]

WorkspacePath == [defined |-> TRUE, path |-> "/home/brev/workspace"]

NotRead == [shape |-> "notRead", field |-> "absent", ports |-> <<>>]

IdleReq ==
    [pc |-> "idle", kind |-> "http", host |-> "", matched |-> FALSE, port |-> "",
     threw |-> FALSE, raised |-> FALSE, foundPublicPort |-> NullPort,
     isAuthenticated |-> FALSE, path |-> "", query |-> "", method |-> "",
     accept |-> "", outcome |-> "none", mappedPort |-> "", target |-> "",
     to |-> NoTarget, calls |-> <<>>,
     \* History fields, taken at the directory lookup: whether startWatch had been
     \* called, the tracked documents, and how they declare the token.
     started |-> FALSE, view |-> <<>>, asBare |-> FALSE, aliasTargets |-> {},
     asTarget |-> FALSE]

\* Whether some chokidar watcher is running and reports filesystem changes.
Watching == watcher = "open" \/ orphans > 0

\* The index of relPath among the own properties of this.portFiles, 0 if absent.
IndexOfPath(files, relPath) ==
    IF \E i \in 1..Len(files) : files[i].relPath = relPath
    THEN CHOOSE i \in 1..Len(files) : files[i].relPath = relPath
    ELSE 0

\* Mutant of AssignFile: a tracked document is overwritten entry by entry, and the
\* entries beyond the new array's length stay.
AssignFile_InPlace(files, relPath, file) ==
    LET i == IndexOfPath(files, relPath)
    IN  IF i = 0 THEN Append(files, [relPath |-> relPath, file |-> file])
        ELSE [files EXCEPT ![i] =
                [relPath |-> relPath,
                 file |-> PortFile(file.kind,
                                   file.ports \o SubSeq(files[i].file.ports,
                                                        Len(file.ports) + 1,
                                                        Len(files[i].file.ports)))]]

\* this.portFiles[relPath] = file: an existing property keeps its place.
AssignFile(files, relPath, file) ==
    LET i == IndexOfPath(files, relPath)
    IN  IF i = 0 THEN Append(files, [relPath |-> relPath, file |-> file])
        ELSE [files EXCEPT ![i] = [relPath |-> relPath, file |-> file]]

\* delete this.portFiles[relPath]
DeleteProperty(files, relPath) ==
    SelectSeq(files, LAMBDA f : f.relPath # relPath)

\* didMatchGlob: picomatch("**/.brev/ports.y*ml") on a relative path.
didMatchGlob(relPath) ==
    LET segs == Split(relPath, "/")
        n == Len(segs)
        name == segs[n]
    IN  /\ n >= 2
        /\ segs[n - 1] = ".brev"
        /\ StartsWith(name, "ports.y")
        /\ Len(name) >= 9
        /\ SubSeq(name, Len(name) - 1, Len(name)) = "ml"
        /\ \A i \in 1..(n - 2) : segs[i] # "" /\ ~StartsWith(segs[i], ".")

\* Mutant of putFile: the ports read are appended to the tracked document's.
putFile_Accumulate(files, relPath, content) ==
    IF ~didMatchGlob(relPath) THEN files
    ELSE LET publicPorts == getPublicPortsFromFile(content)
             i == IndexOfPath(files, relPath)
         IN  IF publicPorts.isNull THEN files
             ELSE IF i # 0 /\ files[i].file.kind = "array"
                           /\ publicPorts.file.kind = "array"
             THEN AssignFile(files, relPath,
                             PortFile("array",
                                      files[i].file.ports \o publicPorts.file.ports))
             ELSE AssignFile(files, relPath, publicPorts.file)

\* Mutant of putFile: a file that cannot be parsed empties the tracked set.
putFile_ClearOnMalformed(files, relPath, content) ==
    IF ~didMatchGlob(relPath) THEN files
    ELSE LET publicPorts == getPublicPortsFromFile(content)
         IN  IF publicPorts.isNull THEN <<>>
             ELSE AssignFile(files, relPath, publicPorts.file)

\* putFile(relPath), reading `content` from the file: the new this.portFiles.
putFile(files, relPath, content) ==
    IF ~didMatchGlob(relPath) THEN files
    ELSE LET publicPorts == getPublicPortsFromFile(content)
         IN  IF publicPorts.isNull THEN files
             ELSE AssignFile(files, relPath, publicPorts.file)

\* deleteFile(relPath): the new this.portFiles.
deleteFile(files, relPath) ==
    IF ~didMatchGlob(relPath) THEN files
    ELSE DeleteProperty(files, relPath)

\* getPublicPort(portOrAlias) once searchPath is defined.
getPublicPort(files, portOrAlias) == PropertyOrNull(getPublicPorts(files), portOrAlias)

\* Whether getPublicPorts raises a TypeError on the tracked set: mergePortFiles
\* calls forEach on a `ports` that is no array, or parsePortOrPortMapping calls
\* includes on a merged entry that is no string.
LookupRaises(files) ==
    \E i \in 1..Len(files) : files[i].file.kind \in {"scalar", "mixed"}

\* Mutant of MappedPort: the port is looked up again when the proxy call is made.
MappedPort_LookupAgain(foundPublicPort, port) ==
    IF getPublicPort(portFiles, port).kind # "null"
    THEN getPublicPort(portFiles, port).str
    ELSE port

\* foundPublicPort !== null ? foundPublicPort : port
MappedPort(foundPublicPort, port) ==
    IF foundPublicPort.kind # "null" THEN foundPublicPort.str ELSE port

\* Mutant of LookupThrows: the guard on searchPath is missing.
LookupThrows_Never(sp) == FALSE

\* Whether getPublicPorts throws "searchPath not defined -- startWatch not yet called".
LookupThrows(sp) == ~sp.defined

(***************************************************************************)
(* The workspace tree and the watcher.                                     *)
(***************************************************************************)

\* A file is created or rewritten; a running watcher detects "add" or "change".
FsWrite(relPath, content) ==
    /\ Watching => Len(pending) < MaxPending
    /\ disk' = [disk EXCEPT ![relPath] = content]
    /\ pending' = IF Watching
                  THEN Append(pending,
                              [type |-> IF disk[relPath] = NoFile THEN "add" ELSE "change",
                               relPath |-> relPath])
                  ELSE pending
    /\ pristine' = (pristine /\ ~startWatchCalled)
    /\ UNCHANGED <<proxyPortSeparator, searchPath, watcher, orphans, portFiles, req,
                   startWatchCalled, lastRead, reread, everClosed>>

\* A file is removed; a running watcher detects "unlink".
FsUnlink(relPath) ==
    /\ disk[relPath] # NoFile
    /\ Watching => Len(pending) < MaxPending
    /\ disk' = [disk EXCEPT ![relPath] = NoFile]
    /\ pending' = IF Watching
                  THEN Append(pending, [type |-> "unlink", relPath |-> relPath])
                  ELSE pending
    /\ pristine' = (pristine /\ ~startWatchCalled)
    /\ UNCHANGED <<proxyPortSeparator, searchPath, watcher, orphans, portFiles, req,
                   startWatchCalled, lastRead, reread, everClosed>>

\* The "add" events of chokidar's initial scan, in the order `order` of the paths.
RECURSIVE InitialAdds(_)
InitialAdds(order) ==
    IF order = <<>> THEN <<>>
    ELSE (IF disk[Head(order)] # NoFile
          THEN <<[type |-> "add", relPath |-> Head(order)]>>
          ELSE <<>>) \o InitialAdds(Tail(order))

\* The orders in which a scan may report the paths.
Orders(paths) ==
    {o \in [1..Cardinality(paths) -> paths] : \A i, j \in DOMAIN o : i # j => o[i] # o[j]}

\* startWatch(searchPath, args)
StartWatch(paths) ==
    /\ watcher = "open" => orphans < MaxOrphans
    /\ pending = <<>>
    /\ searchPath' = WorkspacePath
    /\ watcher' = "open"
    /\ orphans' = IF watcher = "open" THEN orphans + 1 ELSE orphans
    /\ \E o \in Orders(paths) : pending' = InitialAdds(o)
    /\ startWatchCalled' = TRUE
    /\ UNCHANGED <<proxyPortSeparator, portFiles, disk, req, lastRead, reread, pristine,
                   everClosed>>

\* endWatch(): this.watcher.close() stops that watcher's events.
EndWatch ==
    /\ watcher' = IF watcher = "undefined" THEN "undefined" ELSE "closed"
    /\ pending' = IF orphans > 0 THEN pending ELSE <<>>
    /\ everClosed' = (everClosed \/ watcher # "undefined")
    /\ UNCHANGED <<proxyPortSeparator, searchPath, orphans, portFiles, disk, req,
                   startWatchCalled, lastRead, reread, pristine>>

\* The watcher delivers its oldest event: "add" and "change" call putFile, "unlink"
\* calls deleteFile.
DeliverPut ==
    /\ pending # <<>>
    /\ Head(pending).type \in {"add", "change"}
    /\ LET relPath == Head(pending).relPath
       IN  /\ portFiles' = putFile(portFiles, relPath, disk[relPath])
           /\ lastRead' = [lastRead EXCEPT ![relPath] = disk[relPath]]
           /\ reread' = (lastRead[relPath] = disk[relPath])
    /\ pending' = Tail(pending)
    /\ UNCHANGED <<proxyPortSeparator, searchPath, watcher, orphans, disk, req,
                   startWatchCalled, pristine, everClosed>>

DeliverUnlink ==
    /\ pending # <<>>
    /\ Head(pending).type = "unlink"
    /\ LET relPath == Head(pending).relPath
       IN  /\ portFiles' = deleteFile(portFiles, relPath)
           /\ lastRead' = [lastRead EXCEPT ![relPath] = NotRead]
           /\ reread' = FALSE
    /\ pending' = Tail(pending)
    /\ UNCHANGED <<proxyPortSeparator, searchPath, watcher, orphans, disk, req,
                   startWatchCalled, pristine, everClosed>>

(***************************************************************************)
(* Request handling: router.all (kind "http") and wsRouter.ws (kind "ws"). *)
(***************************************************************************)

\* Every raw entry of every tracked document whose `ports` is an array.
TrackedEntries(files) ==
    UNION {{files[i].file.ports[j] : j \in 1..Len(files[i].file.ports)} :
           i \in {k \in 1..Len(files) : files[k].file.kind = "array"}}

\* The raw entries that are alias mappings (they hold a ":").
TrackedMappings(files) == {e \in TrackedEntries(files) : Includes(e, ":")}

\* Mutant of Arrive: the directory is looked up before the Host header is matched.
Arrive_LookupFirst(kind, host) ==
    /\ req.pc = "idle"
    /\ LET port == maybeProxy(host, proxyPortSeparator)
           r == [IdleReq EXCEPT !.kind = kind, !.host = host,
                                !.matched = port.matched, !.port = port.port]
       IN  IF LookupThrows(searchPath)
           THEN req' = [r EXCEPT !.pc = "done", !.threw = TRUE, !.outcome = "error",
                                 !.calls = <<Call("throw", "searchPath not defined")>>,
                                 !.started = startWatchCalled]
           ELSE IF ~port.matched
           THEN req' = [r EXCEPT !.pc = "done", !.outcome = "next",
                                 !.calls = <<Call("next", "")>>]
           ELSE IF LookupRaises(portFiles)
           THEN req' = [r EXCEPT !.pc = "done", !.raised = TRUE, !.outcome = "error",
                                 !.calls = <<Call("throw", "TypeError")>>,
                                 !.started = startWatchCalled, !.view = portFiles]
           ELSE req' = [r EXCEPT
                    !.pc = "awaitAuth",
                    !.foundPublicPort = getPublicPort(portFiles, port.port),
                    !.started = startWatchCalled,
                    !.view = portFiles,
                    !.asBare = port.port \in TrackedEntries(portFiles),
                    !.aliasTargets = {Split(e, ":")[2] :
                                        e \in {m \in TrackedMappings(portFiles) :
                                                 Split(m, ":")[1] = port.port}},
                    !.asTarget = \E m \in TrackedMappings(portFiles) :
                                     Split(m, ":")[2] = port.port]
    /\ UNCHANGED <<proxyPortSeparator>>
    /\ UNCHANGED watchVars

\* The handler up to `await authenticated(req)`: maybeProxy, then getPublicPort.
Arrive(kind, host) ==
    /\ req.pc = "idle"
    /\ LET port == maybeProxy(host, proxyPortSeparator)
           r == [IdleReq EXCEPT !.kind = kind, !.host = host,
                                !.matched = port.matched, !.port = port.port]
       IN  IF ~port.matched
           THEN req' = [r EXCEPT !.pc = "done", !.outcome = "next",
                                 !.calls = <<Call("next", "")>>]
           ELSE IF LookupThrows(searchPath)
           THEN req' = [r EXCEPT !.pc = "done", !.threw = TRUE, !.outcome = "error",
                                 !.calls = <<Call("throw", "searchPath not defined")>>,
                                 !.started = startWatchCalled]
           ELSE IF LookupRaises(portFiles)
           THEN req' = [r EXCEPT !.pc = "done", !.raised = TRUE, !.outcome = "error",
                                 !.calls = <<Call("throw", "TypeError")>>,
                                 !.started = startWatchCalled, !.view = portFiles]
           ELSE req' = [r EXCEPT
                    !.pc = "awaitAuth",
                    !.foundPublicPort = getPublicPort(portFiles, port.port),
                    !.started = startWatchCalled,
                    !.view = portFiles,
                    !.asBare = port.port \in TrackedEntries(portFiles),
                    !.aliasTargets = {Split(e, ":")[2] :
                                        e \in {m \in TrackedMappings(portFiles) :
                                                 Split(m, ":")[1] = port.port}},
                    !.asTarget = \E m \in TrackedMappings(portFiles) :
                                     Split(m, ":")[2] = port.port]
    /\ UNCHANGED <<proxyPortSeparator>>
    /\ UNCHANGED watchVars

\* The handler after `await authenticated(req)` resolves.
Resume(isAuthenticated, path, query, method, accept) ==
    /\ req.pc = "awaitAuth"
    /\ req.kind = "ws" => method = "GET"
    /\ LET portIsPublic == req.foundPublicPort.kind # "null"
           outcome == IF req.kind = "http"
                      THEN HttpOutcome(isAuthenticated, portIsPublic, path, method, accept)
                      ELSE WsOutcome(isAuthenticated, portIsPublic)
           mappedPort == MappedPort(req.foundPublicPort, req.port)
           target == ProxyTarget(mappedPort, OriginalUrl(path, query))
           to == RedirectTo(BaseUrl, path)
           r == [req EXCEPT !.pc = "done", !.isAuthenticated = isAuthenticated,
                            !.path = path, !.query = query, !.method = method,
                            !.accept = accept, !.outcome = outcome]
       IN  IF outcome = "proxy"
           THEN req' = [r EXCEPT !.mappedPort = mappedPort, !.target = target,
                                 !.calls = <<Call(IF req.kind = "http" THEN "proxy.web"
                                                  ELSE "proxy.ws", target)>>]
           ELSE IF outcome = "redirect"
           THEN req' = [r EXCEPT !.to = to, !.calls = <<Call("redirect", "login")>>]
           ELSE IF outcome = "next"
           THEN req' = [r EXCEPT !.calls = <<Call("next", "")>>]
           ELSE req' = [r EXCEPT !.calls = <<Call("throw", "Unauthorized")>>]
    /\ UNCHANGED <<proxyPortSeparator>>
    /\ UNCHANGED watchVars

\* The response is complete; the next request may arrive.
Finish ==
    /\ req.pc = "done"
    /\ req' = IdleReq
    /\ UNCHANGED <<proxyPortSeparator>>
    /\ UNCHANGED watchVars
(***************************************************************************)
(* Specification Spec: one manifest path, requests with every combination  *)
(* of host, handler, authentication, path, method and Accept header.       *)
(***************************************************************************)
Paths == {".brev/ports.yaml"}

Docs == {PortsDoc(<<"8080", "a:8081">>)}

Hosts ==
    {"8080.example.com", "a.example.com:8443", "8081.example.com",
     "constructor.example.com", "8080.sub.example.com", "sub.8080.example.com",
     "8080-example.com", ""}

Separators == {"dot", "dash"}

Kinds == {"http", "ws"}

RequestPaths == {"/static/app.js", "/login", "/foo", "/"}

Methods == {"GET", "POST"}

Accepts == {"", "text/html,application/xhtml+xml", "application/json"}

Queries == {"", "?x=1"}

Init ==
    /\ proxyPortSeparator \in Separators
    /\ searchPath = UndefinedPath
    /\ watcher = "undefined"
    /\ orphans = 0
    /\ portFiles = <<>>
    /\ disk = [p \in Paths |-> NoFile]
    /\ pending = <<>>
    /\ req = IdleReq
    /\ startWatchCalled = FALSE
    /\ lastRead = [p \in Paths |-> NotRead]
    /\ reread = FALSE
    /\ pristine = TRUE
    /\ everClosed = FALSE

Next ==
    \/ \E relPath \in Paths, content \in Docs : FsWrite(relPath, content)
    \/ \E relPath \in Paths : FsUnlink(relPath)
    \/ StartWatch(Paths)
    \/ EndWatch
    \/ DeliverPut
    \/ DeliverUnlink
    \/ \E kind \in Kinds, host \in Hosts : Arrive(kind, host)
    \/ \E isAuthenticated \in BOOLEAN, path \in RequestPaths, query \in Queries,
          method \in Methods, accept \in Accepts :
              Resume(isAuthenticated, path, query, method, accept)
    \/ Finish

Spec == Init /\ [][Next]_vars

(***************************************************************************)
(* Claims checked under Spec.                                              *)
(***************************************************************************)

\* The request has passed maybeProxy and the directory lookup has returned.
LookedUp ==
    req.pc \in {"awaitAuth", "done"} /\ req.matched /\ ~req.threw /\ ~req.raised

\* The handler has ended for a request whose lookup returned.
Decided == req.pc = "done" /\ req.matched /\ ~req.threw /\ ~req.raised

\* The token is declared by a tracked document: a bare entry that is a valid
\* port, or the alias name of a mapping whose two halves are valid.
DeclaredBare == req.asBare /\ MatchesPortRegex(req.port)

DeclaredAlias ==
    /\ MatchesAliasRegex(req.port)
    /\ \E t \in req.aliasTargets : MatchesPortRegex(t)

\* C1: in both handlers a request is forwarded only if it is authenticated or its
\* token is public (declared by a tracked document) at the directory lookup: an
\* unauthenticated request for a token no document declares ends in next, redirect
\* or Unauthorized, never in a proxy call.
C1_ForwardOnlyIfAuthenticatedOrPublic ==
    (Decided /\ ~req.isAuthenticated /\ ~DeclaredBare /\ ~DeclaredAlias)
        => req.outcome \in {"next", "redirect", "unauthorized"}

\* C2: every proxy-matching HTTP request that reaches the gate authenticated, or
\* with a token the lookup found public, is forwarded, whatever its path, method
\* and Accept header.
C2_AuthenticatedOrPublicIsForwarded ==
    (Decided /\ req.kind = "http"
        /\ (req.isAuthenticated \/ req.foundPublicPort.kind # "null"))
        => req.outcome = "proxy"

\* C2 witness: an unauthenticated POST to /foo accepting only JSON, for a token a
\* document declares as a bare port, is forwarded.
C2_Witness ==
    /\ Decided /\ req.kind = "http" /\ ~req.isAuthenticated /\ DeclaredBare
    /\ req.path = "/foo" /\ req.method = "POST" /\ req.accept = "application/json"
    /\ req.outcome = "proxy"

C4_AliasTargetIsNotPublic ==
    (LookedUp /\ MatchesPortRegex(req.port) /\ req.asTarget
        /\ ~req.asBare /\ req.aliasTargets = {})
        => /\ req.foundPublicPort.kind = "null"
           /\ (req.pc = "done" /\ ~req.isAuthenticated) => req.outcome # "proxy"

\* C4 witness: an unauthenticated request to a port that is only an alias target
\* is rejected.
C4_Witness ==
    /\ Decided /\ ~req.isAuthenticated /\ req.port = "8081" /\ req.asTarget
    /\ ~req.asBare /\ req.aliasTargets = {}
    /\ req.outcome = "unauthorized"

\* C5: the backend port of every forwarded request is the port the directory maps
\* the token to when a tracked document declares the token, and the token itself
\* otherwise; no other port is used.
C5_BackendPortIsMappingOrToken ==
    (Decided /\ req.outcome = "proxy")
        => IF DeclaredBare \/ DeclaredAlias
           THEN req.mappedPort \in
                    (IF DeclaredBare THEN {req.port} ELSE {}) \cup req.aliasTargets
           ELSE req.mappedPort = req.port

\* C9: a lookup made before startWatch was ever called throws (the handler ends
\* in an error, with no lookup result), and a lookup made after it never throws.
C9_LookupThrowsExactlyBeforeStartWatch ==
    (req.pc # "idle" /\ req.matched)
        => /\ req.threw <=> ~req.started
           /\ req.threw => req.outcome = "error" /\ req.foundPublicPort = NullPort

\* C9 witness: a proxy-matching request that arrived before startWatch threw.
C9_Witness ==
    req.pc = "done" /\ req.matched /\ ~req.started /\ req.threw /\ req.outcome = "error"

\* The hostname of the Host header: the header up to its first ":".
HostName(host) ==
    IF \E i \in 1..Len(host) : Char(host, i) = ":"
    THEN SubSeq(host, 1, (CHOOSE i \in 1..Len(host) :
                            /\ Char(host, i) = ":"
                            /\ \A j \in 1..(i - 1) : Char(host, j) # ":") - 1)
    ELSE host

SeparatorChar == IF proxyPortSeparator = "dash" THEN "-" ELSE "."

\* The tokens t with hostname = t separator d for a configured proxy domain d,
\* t non-empty and free of the separator.
ExactTokensOf(hostname, sep) ==
    {t \in {SubSeq(hostname, 1, n) : n \in 1..Len(hostname)} :
        /\ \A i \in 1..Len(t) : Char(t, i) # sep
        /\ \E k \in 1..Len(ProxyDomains) : hostname = t \o sep \o ProxyDomains[k]}

\* ExactTokensOf tabulated once for the Host headers of Spec and both separators.
ExactTokensTable ==
    [host \in Hosts |-> [sep \in {".", "-"} |-> ExactTokensOf(HostName(host), sep)]]

ExactTokens(host) ==
    IF host \in Hosts
    THEN ExactTokensTable[host][SeparatorChar]
    ELSE ExactTokensOf(HostName(host), SeparatorChar)

\* C10: maybeProxy returns a token exactly when the hostname (the Host header
\* without its :port suffix) is a non-empty first segment, the separator and one
\* configured proxy domain, and then returns that segment; with the separator "."
\* 8080.example.com gives 8080, 8080.sub.example.com and sub.8080.example.com
\* give no match.
C10_HostRouterExactness ==
    (req.pc # "idle")
        => /\ req.matched <=> ExactTokens(req.host) # {}
           /\ req.matched => ExactTokens(req.host) = {req.port}
           /\ (proxyPortSeparator = "dot" /\ req.host = "8080.example.com")
                  => req.matched /\ req.port = "8080"
           /\ (proxyPortSeparator = "dot"
                  /\ req.host \in {"8080.sub.example.com", "sub.8080.example.com"})
                  => ~req.matched

\* C10 witness: with the separator "." a Host header with a :port suffix matched
\* on its first segment.
C10_Witness ==
    /\ req.pc # "idle" /\ proxyPortSeparator = "dot"
    /\ req.host = "a.example.com:8443" /\ req.matched /\ req.port = "a"

(***************************************************************************)
(* Specification SpecWatch: two manifest paths and the watcher alone.      *)
(***************************************************************************)
WatchPaths == {".brev/ports.yaml", "app/.brev/ports.yml"}

WatchDocs ==
    {SyntaxErrorDoc,
     PortsDoc(<<"8080", "a:8081">>),
     PortsDoc(<<"8080", "constructor:8082">>)}

InitWatch ==
    /\ proxyPortSeparator = "dot"
    /\ searchPath = UndefinedPath
    /\ watcher = "undefined"
    /\ orphans = 0
    /\ portFiles = <<>>
    /\ disk = [p \in WatchPaths |-> NoFile]
    /\ pending = <<>>
    /\ req = IdleReq
    /\ startWatchCalled = FALSE
    /\ lastRead = [p \in WatchPaths |-> NotRead]
    /\ reread = FALSE
    /\ pristine = TRUE
    /\ everClosed = FALSE

NextWatch ==
    \/ \E relPath \in WatchPaths, content \in WatchDocs : FsWrite(relPath, content)
    \/ \E relPath \in WatchPaths : FsUnlink(relPath)
    \/ StartWatch(WatchPaths)
    \/ EndWatch
    \/ DeliverPut
    \/ DeliverUnlink

SpecWatch == InitWatch /\ [][NextWatch]_vars

(***************************************************************************)
(* Claims checked under SpecWatch.                                         *)
(***************************************************************************)

Tracked(files, relPath) == IndexOfPath(files, relPath) # 0

FileOf(files, relPath) == files[IndexOfPath(files, relPath)].file

\* What one raw entry declares.
EntryValid(e) ==
    IF Includes(e, ":")
    THEN MatchesAliasRegex(Split(e, ":")[1]) /\ MatchesPortRegex(Split(e, ":")[2])
    ELSE MatchesPortRegex(e)

EntryKey(e) == IF Includes(e, ":") THEN Split(e, ":")[1] ELSE e

EntryPort(e) == IF Includes(e, ":") THEN Split(e, ":")[2] ELSE e

\* The tokens a PortFile declares, and the ports it declares for a token.
DeclaredTokens(file) ==
    IF file.kind # "array" THEN {}
    ELSE {EntryKey(file.ports[i]) : i \in {j \in 1..Len(file.ports) : EntryValid(file.ports[j])}}

DeclaredPorts(file, token) ==
    IF file.kind # "array" THEN {}
    ELSE {EntryPort(file.ports[i]) :
            i \in {j \in 1..Len(file.ports) :
                     EntryValid(file.ports[j]) /\ EntryKey(file.ports[j]) = token}}

\* The directory one document declares by itself: each declared token mapped to
\* the port of its last valid entry.
DeclaredDirectory(entries) ==
    LET valid == {j \in 1..Len(entries) : EntryValid(entries[j])}
    IN  [t \in {EntryKey(entries[i]) : i \in valid} |->
            EntryPort(entries[CHOOSE i \in valid :
                                /\ EntryKey(entries[i]) = t
                                /\ \A j \in valid : EntryKey(entries[j]) = t => j <= i])]

\* C6: when an unlink event removes a tracked file, every token only that file
\* declared resolves to null afterwards, and every token another still-tracked
\* file declares too still resolves to a port such a file declares for it.
C6_DeletionConsistency ==
    [][\A relPath \in WatchPaths :
          (Tracked(portFiles, relPath) /\ ~Tracked(portFiles', relPath))
              => \A token \in DeclaredTokens(FileOf(portFiles, relPath)) :
                    LET others == {i \in 1..Len(portFiles') :
                                      token \in DeclaredTokens(portFiles'[i].file)}
                        found == getPublicPort(portFiles', token)
                    IN  IF others = {}
                        THEN found = NullPort
                        ELSE /\ found.kind = "port"
                             /\ \E i \in others :
                                   found.str \in DeclaredPorts(portFiles'[i].file, token)]_vars

\* C7: an add/change event for a file whose bytes are those the previous event for
\* that file read leaves the tracked documents, and so the merged directory, as
\* they were: nothing accumulates or duplicates.
C7_IdempotentReparse ==
    [][(/\ pending # <<>>
        /\ Head(pending).type \in {"add", "change"}
        /\ pending' = Tail(pending)
        /\ lastRead[Head(pending).relPath] = disk[Head(pending).relPath])
           => /\ portFiles' = portFiles
              /\ getPublicPorts(portFiles') = getPublicPorts(portFiles)]_vars

\* C7 witness: the last callback re-read the unchanged bytes of a tracked
\* manifest that declares entries.
C7_Witness ==
    /\ reread
    /\ \E relPath \in WatchPaths :
          /\ lastRead[relPath] = disk[relPath]
          /\ disk[relPath].shape = "mapping" /\ disk[relPath].ports # <<>>
          /\ Tracked(portFiles, relPath)

\* The tree has held one syntactically invalid manifest (bad) and one valid
\* manifest (good) since startWatch was first called, and the add event of each
\* has been delivered.
BothAdded(bad, good) ==
    /\ bad # good
    /\ startWatchCalled /\ pristine
    /\ disk[bad] = SyntaxErrorDoc
    /\ disk[good].shape = "mapping" /\ disk[good].field = "array"
    /\ lastRead[bad] = disk[bad] /\ lastRead[good] = disk[good]

\* C8: with one syntactically invalid and one valid manifest in the tree, after
\* both add events, in either order, the tracked set is the valid file alone and
\* the merged directory is exactly what the valid file declares.
C8_MalformedFileIsolation ==
    \A bad, good \in WatchPaths :
        BothAdded(bad, good)
            => /\ getPublicPorts(portFiles) = DeclaredDirectory(disk[good].ports)
               /\ Len(portFiles) = 1 /\ portFiles[1].relPath = good

\* C8 witness: the invalid file's add event was delivered after the valid file's.
C8_Witness ==
    /\ pending = <<>>
    /\ \E bad, good \in WatchPaths :
          /\ BothAdded(bad, good)
          /\ disk[good].ports = <<"8080", "a:8081">>
          /\ getPublicPorts(portFiles) = [t \in {"8080", "a"} |->
                                             IF t = "a" THEN "8081" ELSE "8080"]

(***************************************************************************)
(* Claims about the gate and the forwarder, checked under Spec.            *)
(***************************************************************************)

\* The request, as the gate reads it.
StaticAssetGet ==
    Len(req.path) >= 8 /\ SubSeq(req.path, 1, 8) = "/static/" /\ req.method = "GET"

AcceptsHtml ==
    \E i \in 1..(Len(req.accept) - 8) : SubSeq(req.accept, i, i + 8) = "text/html"

LoginPath ==
    \E i \in 1..(Len(req.path) - 5) : SubSeq(req.path, i, i + 5) = "/login"

\* An unauthenticated HTTP request whose token the lookup did not find has ended.
GateDecided ==
    /\ Decided /\ req.kind = "http"
    /\ ~req.isAuthenticated /\ req.foundPublicPort.kind = "null"

\* C11: for an unauthenticated HTTP request to a non-public token the gate decides
\* in this order: a GET under /static/ passes on; otherwise an Accept holding
\* text/html passes on when the path matches the login pattern and redirects to
\* the login otherwise, the target being the path and omitted for the root path;
\* otherwise the request is rejected as Unauthorized.  In particular text/html
\* with /foo redirects with target /foo, /login with text/html passes on, and
\* Accept application/json is rejected.
C11_GateDecisionOrder ==
    GateDecided =>
        /\ IF StaticAssetGet THEN req.outcome = "next"
           ELSE IF AcceptsHtml
           THEN IF LoginPath THEN req.outcome = "next"
                ELSE /\ req.outcome = "redirect"
                     /\ req.to = IF req.path = "/" THEN NoTarget
                                 ELSE [present |-> TRUE, str |-> req.path]
           ELSE req.outcome = "unauthorized"
        /\ (req.accept = "text/html,application/xhtml+xml" /\ req.path = "/foo")
               => req.outcome = "redirect" /\ req.to = [present |-> TRUE, str |-> "/foo"]
        /\ (req.accept = "text/html,application/xhtml+xml" /\ req.path = "/login")
               => req.outcome = "next"
        /\ (req.accept = "application/json" /\ ~StaticAssetGet)
               => req.outcome = "unauthorized"
        /\ req.outcome # "redirect" => req.to = NoTarget

\* C11 witness: a browser navigation to the root path was redirected to the login
\* with no target.
C11_Witness ==
    /\ GateDecided /\ req.path = "/" /\ AcceptsHtml
    /\ req.outcome = "redirect" /\ req.to = NoTarget

\* C12 as claimed: an upgrade is forwarded in exactly the cases where the HTTP
\* gate, given the same request, allows (forwards or passes on), and fails with
\* Unauthorized in every other case.
C12_UpgradeForwardedIffHttpAllows ==
    (Decided /\ req.kind = "ws")
        => /\ req.outcome \in {"proxy", "unauthorized"}
           /\ req.outcome = "proxy"
                <=> HttpOutcome(req.isAuthenticated, req.foundPublicPort.kind # "null",
                                req.path, req.method, req.accept) \in {"proxy", "next"}

\* C12 amended: an upgrade is forwarded exactly when the request is authenticated
\* or the lookup found the token public, which are the cases where the HTTP
\* handler forwards; in every other case, the static-asset and login cases the
\* HTTP gate passes on included, it fails with Unauthorized; it is never
\* redirected.
C12_UpgradeForwardedIffAuthenticatedOrPublic ==
    (Decided /\ req.kind = "ws")
        => /\ req.outcome \in {"proxy", "unauthorized"}
           /\ req.outcome = "proxy"
                <=> (req.isAuthenticated \/ req.foundPublicPort.kind # "null")
           /\ req.outcome = "proxy"
                <=> HttpOutcome(req.isAuthenticated, req.foundPublicPort.kind # "null",
                                req.path, req.method, req.accept) = "proxy"
           /\ req.to = NoTarget
           /\ \A i \in 1..Len(req.calls) : req.calls[i].fn \in {"proxy.ws", "throw"}

\* C12 witness: an unauthenticated upgrade for a static asset of a non-public token,
\* which the HTTP gate passes on, failed with Unauthorized.
C12_Witness ==
    /\ Decided /\ req.kind = "ws" /\ ~req.isAuthenticated
    /\ req.foundPublicPort.kind = "null"
    /\ req.path = "/static/app.js" /\ req.method = "GET"
    /\ req.outcome = "unauthorized"

\* C13: a handler that forwards makes exactly one call, proxy.web for HTTP and
\* proxy.ws for an upgrade, and nothing else (no next, redirect or throw); the
\* target of the call is http://0.0.0.0:<port> followed by the request's original
\* URL, path and query unchanged.  A handler that does not forward makes no proxy
\* call.
C13_SingleProxyCallWithOriginalUrl ==
    (req.pc = "done")
        => /\ Len(req.calls) = 1
           /\ req.outcome = "proxy"
                => /\ req.calls[1].fn =
                          (IF req.kind = "http" THEN "proxy.web" ELSE "proxy.ws")
                   /\ req.calls[1].target =
                          "http://0.0.0.0:" \o req.mappedPort \o req.path \o req.query
           /\ req.outcome # "proxy" => req.calls[1].fn \notin {"proxy.web", "proxy.ws"}

\* C13 witness: a request to an alias with a query string was forwarded to the
\* alias's port with path and query as sent.
C13_Witness ==
    /\ Decided /\ req.outcome = "proxy" /\ req.port = "a"
    /\ req.path = "/foo" /\ req.query = "?x=1"
    /\ req.calls = <<Call("proxy.web", "http://0.0.0.0:8081/foo?x=1")>>

\* The watcher delivers the add or change event at the head of the queue, for relPath.
PutDelivered(relPath) ==
    /\ pending # <<>>
    /\ Head(pending).type \in {"add", "change"}
    /\ Head(pending).relPath = relPath
    /\ pending' = Tail(pending)
    /\ watcher' = watcher /\ disk' = disk

\* C15: a change event for a tracked file whose new contents are malformed (YAML
\* syntax error or schema mismatch) replaces the tracked document: afterwards the
\* file contributes no entry, so a token only its previous contents declared is
\* no longer in the directory.
C15_MalformedChangeReplacesDocument ==
    [][\A relPath \in WatchPaths :
          (/\ PutDelivered(relPath)
           /\ Head(pending).type = "change"
           /\ Tracked(portFiles, relPath)
           /\ disk[relPath].shape \in {"syntaxError", "schemaError"})
              => /\ Tracked(portFiles', relPath)
                       => DeclaredTokens(FileOf(portFiles', relPath)) = {}
                 /\ \A token \in DeclaredTokens(FileOf(portFiles, relPath)) :
                       (\A i \in 1..Len(portFiles') :
                            portFiles'[i].relPath # relPath
                                => token \notin DeclaredTokens(portFiles'[i].file))
                          => token \notin DOMAIN getPublicPorts(portFiles')]_vars

\* C16: an add or change event whose read of the file fails (the file is gone or
\* unreadable) is no update: the tracked documents, that path's previous document
\* included, stay as they were, the watcher keeps running, and the events behind
\* it stay queued and deliverable.
C16_ReadErrorIsNoUpdate ==
    [][\A relPath \in WatchPaths :
          (PutDelivered(relPath) /\ disk[relPath].shape \in {"noFile", "unreadable"})
              => /\ portFiles' = portFiles
                 /\ getPublicPorts(portFiles') = getPublicPorts(portFiles)
                 /\ watcher' = watcher /\ orphans' = orphans
                 /\ searchPath' = searchPath
                 /\ pending' = Tail(pending)]_vars

\* C16 witness: the last add/change callback for a tracked manifest found the file
\* gone; the document tracked before is still tracked and the unlink event
\* behind it is still queued.
C16_Witness ==
    \E relPath \in WatchPaths :
        /\ lastRead[relPath] = NoFile
        /\ Tracked(portFiles, relPath)
        /\ DeclaredTokens(FileOf(portFiles, relPath)) # {}
        /\ pending # <<>> /\ Head(pending).type = "unlink"

\* What the manifest at a path declares as it is on disk: a file that is missing
\* or malformed declares nothing.
DiskFile(relPath) == getPublicPortsFromFile(disk[relPath]).file

\* One watcher has run since startWatch and has delivered every event.
Quiescent ==
    /\ startWatchCalled /\ watcher = "open" /\ orphans = 0 /\ ~everClosed
    /\ pending = <<>>

\* C17: once file changes have stopped and the running watcher has delivered
\* every pending add, change and unlink event, the merged directory equals the
\* merge of the parse of the manifest files as they are on disk: its keys are the
\* tokens those files declare, each mapped to a port they declare for it.  (With
\* no event pending and no further change no step changes the directory, so this
\* is the state the directory stays in.)
C17_QuiescentDirectoryMatchesDisk ==
    Quiescent =>
        LET dir == getPublicPorts(portFiles)
        IN  /\ DOMAIN dir = UNION {DeclaredTokens(DiskFile(p)) : p \in DOMAIN disk}
            /\ \A t \in DOMAIN dir :
                   dir[t] \in UNION {DeclaredPorts(DiskFile(p), t) : p \in DOMAIN disk}

(***************************************************************************)
(* Specification SpecMerge: the merged directory as a function of the      *)
(* tracked set.  The watcher has delivered the add event of every manifest *)
(* of the tree, in some order, and is idle; requests look tokens up.       *)
(***************************************************************************)
MergePaths == {".brev/ports.yaml", "app/.brev/ports.yml", "lib/.brev/ports.yaml"}

\* The `ports` arrays of the manifests: every entry is a valid token.
MergeEntries ==
    {<<"8080", "a:8081">>, <<"a:8082">>, <<"a:8081">>, <<"8081", "8080:9090">>}

MergeHosts == {"a.example.com", "8080.example.com", "8081.example.com"}

\* Every this.portFiles over the manifests of some files among `paths`.
TrackedSets(paths, entries) ==
    UNION {{[i \in 1..Cardinality(S) |->
                [relPath |-> o[i], file |-> PortFile("array", d[i])]] :
               o \in Orders(S), d \in [1..Cardinality(S) -> entries]} :
           S \in SUBSET paths}

InitMerge ==
    /\ proxyPortSeparator = "dot"
    /\ searchPath = WorkspacePath
    /\ watcher = "open"
    /\ orphans = 0
    /\ portFiles \in TrackedSets(MergePaths, MergeEntries)
    /\ disk = [p \in MergePaths |->
                  IF Tracked(portFiles, p) THEN PortsDoc(FileOf(portFiles, p).ports)
                  ELSE NoFile]
    /\ pending = <<>>
    /\ req = IdleReq
    /\ startWatchCalled = TRUE
    /\ lastRead = [p \in MergePaths |-> IF Tracked(portFiles, p) THEN disk[p] ELSE NotRead]
    /\ reread = FALSE
    /\ pristine = TRUE
    /\ everClosed = FALSE

NextMerge ==
    \/ \E host \in MergeHosts : Arrive("http", host)
    \/ \E isAuthenticated \in BOOLEAN :
          Resume(isAuthenticated, "/foo", "", "GET", "application/json")
    \/ Finish

SpecMerge == InitMerge /\ [][NextMerge]_vars

(***************************************************************************)
(* Claims checked under SpecMerge.                                         *)
(***************************************************************************)

\* The raw entries of the tracked document at index i.
EntriesAt(i) == IF portFiles[i].file.kind = "array" THEN portFiles[i].file.ports ELSE <<>>

\* Every tracked document holds only valid entries.
AllEntriesValid ==
    \A i \in 1..Len(portFiles) : \A j \in 1..Len(EntriesAt(i)) : EntryValid(EntriesAt(i)[j])

\* The tokens the tracked documents declare, and the ports they declare for one.
AllDeclaredTokens == UNION {DeclaredTokens(portFiles[i].file) : i \in 1..Len(portFiles)}

AllDeclaredPorts(token) ==
    UNION {DeclaredPorts(portFiles[i].file, token) : i \in 1..Len(portFiles)}

\* C14 as claimed: when every entry of every tracked document is valid, the
\* merged directory holds the self-mapping of every bare entry and the mapping
\* alias -> port of every alias entry declared, and nothing else: no declared
\* entry is dropped or replaced.
C14_EveryDeclaredEntryIsInDirectory ==
    AllEntriesValid =>
        LET dir == getPublicPorts(portFiles)
        IN  /\ DOMAIN dir = AllDeclaredTokens
            /\ \A i \in 1..Len(portFiles) : \A j \in 1..Len(EntriesAt(i)) :
                   /\ EntryKey(EntriesAt(i)[j]) \in DOMAIN dir
                   /\ dir[EntryKey(EntriesAt(i)[j])] = EntryPort(EntriesAt(i)[j])

\* C14 amended: when every entry of every tracked document is valid, the keys of
\* the merged directory are exactly the declared tokens (every bare port and
\* every alias name, none dropped); a token declared with one port only maps to
\* that port, and a token declared with several ports maps to one of them.  A
\* lookup of a declared token returns the directory's port for it.
C14_DirectoryHoldsExactlyTheDeclaredTokens ==
    AllEntriesValid =>
        LET dir == getPublicPorts(portFiles)
        IN  /\ DOMAIN dir = AllDeclaredTokens
            /\ \A t \in AllDeclaredTokens :
                   /\ dir[t] \in AllDeclaredPorts(t)
                   /\ Cardinality(AllDeclaredPorts(t)) = 1 => AllDeclaredPorts(t) = {dir[t]}
            /\ (LookedUp /\ req.port \in AllDeclaredTokens)
                   => /\ req.foundPublicPort.kind = "port"
                      /\ req.foundPublicPort.str \in AllDeclaredPorts(req.port)

\* C14 witness: three documents declare the bare ports 8080 and 8081 and the
\* alias a once with one port; a lookup of a returned that port.
C14_Witness ==
    /\ Len(portFiles) = 3 /\ AllEntriesValid
    /\ AllDeclaredTokens = {"8080", "8081", "a"}
    /\ AllDeclaredPorts("a") = {"8081"}
    /\ AllDeclaredPorts("8080") = {"8080", "9090"}
    /\ LookedUp /\ req.port = "a" /\ req.foundPublicPort.str = "8081"

\* The aliases the document at index i declares by an alias:port entry.
AliasNamesAt(i) ==
    {EntryKey(EntriesAt(i)[j]) :
        j \in {k \in 1..Len(EntriesAt(i)) :
                 EntryValid(EntriesAt(i)[k]) /\ Includes(EntriesAt(i)[k], ":")}}

\* C20: when two tracked documents declare the same alias with different target
\* ports, the directory maps the alias to the target declared by the one of the
\* documents declaring it that comes last in the iteration order of the tracked
\* set, and a lookup of the alias returns that target.
C20_LaterDocumentWins ==
    \A i, j \in 1..Len(portFiles) : \A t \in AliasNamesAt(i) \cap AliasNamesAt(j) :
        (/\ i < j
         /\ DeclaredDirectory(EntriesAt(i))[t] # DeclaredDirectory(EntriesAt(j))[t]
         /\ \A k \in (j + 1)..Len(portFiles) : t \notin AliasNamesAt(k))
            => /\ getPublicPorts(portFiles)[t] = DeclaredDirectory(EntriesAt(j))[t]
               /\ (LookedUp /\ req.port = t)
                      => req.foundPublicPort.str = DeclaredDirectory(EntriesAt(j))[t]

(***************************************************************************)
(* Specification SpecRace: one manifest path whose contents change between *)
(* two documents while requests are in flight.                             *)
(***************************************************************************)
RaceDocs == {PortsDoc(<<"8080", "a:8081">>), PortsDoc(<<"a:8082">>)}

RaceHosts == {"a.example.com", "8080.example.com", "constructor.example.com"}

InitRace ==
    /\ proxyPortSeparator = "dot"
    /\ searchPath = UndefinedPath
    /\ watcher = "undefined"
    /\ orphans = 0
    /\ portFiles = <<>>
    /\ disk = [p \in Paths |-> NoFile]
    /\ pending = <<>>
    /\ req = IdleReq
    /\ startWatchCalled = FALSE
    /\ lastRead = [p \in Paths |-> NotRead]
    /\ reread = FALSE
    /\ pristine = TRUE
    /\ everClosed = FALSE

NextRace ==
    \/ \E relPath \in Paths, content \in RaceDocs : FsWrite(relPath, content)
    \/ \E relPath \in Paths : FsUnlink(relPath)
    \/ StartWatch(Paths)
    \/ EndWatch
    \/ DeliverPut
    \/ DeliverUnlink
    \/ \E kind \in Kinds, host \in RaceHosts : Arrive(kind, host)
    \/ \E isAuthenticated \in BOOLEAN :
          Resume(isAuthenticated, "/foo", "", "GET", "application/json")
    \/ Finish

SpecRace == InitRace /\ [][NextRace]_vars

(***************************************************************************)
(* Claims checked under SpecRace.                                          *)
(***************************************************************************)

\* Every document of a tracked set is the parse of one whole manifest, and no
\* path is tracked twice.
WholeDocuments(files) ==
    /\ \A i \in 1..Len(files) :
          \E d \in RaceDocs : files[i].file = PortFile("array", d.ports)
    /\ \A i, j \in 1..Len(files) : files[i].relPath = files[j].relPath => i = j

\* The tokens the documents of a tracked set declare, and the ports for one.
TokensOf(files) == UNION {DeclaredTokens(files[i].file) : i \in 1..Len(files)}

PortsOf(files, token) == UNION {DeclaredPorts(files[i].file, token) : i \in 1..Len(files)}

\* C18: at every point where a request handler can run, between two watcher
\* callbacks, the tracked set consists of whole documents, each the parse of one
\* manifest as one event read it; the lookup of a request returns what the
\* tracked set of that moment declares for the token and nothing of a partly
\* applied update (an inherited property is found whatever the documents are).
C18_LookupSeesWholeUpdates ==
    /\ WholeDocuments(portFiles)
    /\ LookedUp
          => /\ WholeDocuments(req.view)
             /\ req.foundPublicPort.kind = "port" <=> req.port \in TokensOf(req.view)
             /\ req.foundPublicPort.kind = "port"
                    => req.foundPublicPort.str \in PortsOf(req.view, req.port)

\* C18 witness: a request looked its alias up before a change event replaced the
\* document; the lookup saw the whole earlier document.
C18_Witness ==
    /\ LookedUp /\ req.port = "a"
    /\ Len(req.view) = 1 /\ req.view[1].file.ports = <<"8080", "a:8081">>
    /\ Len(portFiles) = 1 /\ portFiles[1].file.ports = <<"a:8082">>
    /\ req.foundPublicPort = [kind |-> "port", str |-> "8081"]

\* C19: the decision and the backend port of a request both come from the one
\* lookup made before `await authenticated(req)`: a watcher callback that runs
\* while the check is pending leaves the request as it is, and when the check
\* resolves the handler forwards exactly if the request is authenticated or that
\* lookup found a port, to the port that lookup found (the token itself if it
\* found none), whatever the tracked set has become.
C19_OneLookupDecidesGateAndPort ==
    [][/\ (req.pc = "awaitAuth" /\ portFiles' # portFiles) => req' = req
       /\ (req.pc = "awaitAuth" /\ req'.pc = "done")
             => /\ req'.foundPublicPort = req.foundPublicPort
                /\ req'.outcome = "proxy"
                      <=> (req'.isAuthenticated \/ req.foundPublicPort.kind # "null")
                /\ req'.outcome = "proxy"
                      => req'.mappedPort =
                            (IF req.foundPublicPort.kind # "null"
                             THEN req.foundPublicPort.str ELSE req.port)]_vars

\* C19 witness: the unlink event of the only manifest declaring 8080 was delivered
\* while an unauthenticated request to 8080 awaited the check; the request was
\* forwarded to 8080 all the same.
C19_Witness ==
    /\ Decided /\ ~req.isAuthenticated /\ req.port = "8080"
    /\ Len(req.view) = 1 /\ portFiles = <<>>
    /\ lastRead[".brev/ports.yaml"] = NotRead
    /\ req.outcome = "proxy" /\ req.mappedPort = "8080"

(***************************************************************************)
(* Specification SpecSchema: the manifests of the tree hold every kind of  *)
(* content the parser distinguishes; startWatch scans them, the add events *)
(* are delivered, and requests look tokens up.                             *)
(***************************************************************************)
SchemaDocs ==
    {SyntaxErrorDoc, SchemaErrorDoc, NullDoc, NullPortsDoc, NoPortsDoc,
     PortsDoc(<<"8080", "my-server:9000", "a:8081">>),
     PortsDoc(<<"9000", "b:x1">>),
     MixedPortsDoc(<<"7000", "bad!">>),
     ScalarPortsDoc}

SchemaHosts ==
    {"8080.example.com", "a.example.com", "9000.example.com", "b.example.com",
     "my-server.example.com", "7000.example.com"}

InitSchema ==
    /\ proxyPortSeparator = "dot"
    /\ searchPath = UndefinedPath
    /\ watcher = "undefined"
    /\ orphans = 0
    /\ portFiles = <<>>
    /\ disk \in [WatchPaths -> SchemaDocs \cup {NoFile}]
    /\ pending = <<>>
    /\ req = IdleReq
    /\ startWatchCalled = FALSE
    /\ lastRead = [p \in WatchPaths |-> NotRead]
    /\ reread = FALSE
    /\ pristine = TRUE
    /\ everClosed = FALSE

NextSchema ==
    \/ StartWatch(WatchPaths)
    \/ DeliverPut
    \/ \E host \in SchemaHosts : Arrive("http", host)
    \/ \E isAuthenticated \in BOOLEAN :
          Resume(isAuthenticated, "/foo", "", "GET", "application/json")
    \/ Finish

SpecSchema == InitSchema /\ [][NextSchema]_vars

(***************************************************************************)
(* Claims checked under SpecSchema.                                        *)
(***************************************************************************)

\* The string entries of a tracked document.
StringEntries(file) == IF file.kind \in {"array", "mixed"} THEN file.ports ELSE <<>>

\* Some tracked document holds a string entry that fails validation.
HasInvalidEntry(files) ==
    \E i \in 1..Len(files) : \E j \in 1..Len(StringEntries(files[i].file)) :
        ~EntryValid(StringEntries(files[i].file)[j])

\* The keys of the valid string entries of the tracked documents, and the ports
\* those entries give a key.
ValidKeys(files) ==
    {EntryKey(e) : e \in {x \in UNION {{StringEntries(files[i].file)[j] :
                                           j \in 1..Len(StringEntries(files[i].file))} :
                                        i \in 1..Len(files)} : EntryValid(x)}}

ValidPorts(files, token) ==
    {EntryPort(e) : e \in {x \in UNION {{StringEntries(files[i].file)[j] :
                                            j \in 1..Len(StringEntries(files[i].file))} :
                                         i \in 1..Len(files)} :
                              EntryValid(x) /\ EntryKey(x) = token}}

\* C21: when a tracked document holds an entry that fails validation, only that
\* entry is missing from the directory: a lookup made after startWatch of the key
\* of any valid entry, of the same file or of another, returns a port that entry
\* or another valid entry gives the key, and a lookup of a token no valid entry
\* declares returns null.
C21_BadEntryInvalidatesNothingElse ==
    (req.pc # "idle" /\ req.matched /\ req.started /\ HasInvalidEntry(req.view))
        => /\ LookedUp
           /\ req.port \in ValidKeys(req.view)
                 => /\ req.foundPublicPort.kind = "port"
                    /\ req.foundPublicPort.str \in ValidPorts(req.view, req.port)
           /\ req.port \notin (ValidKeys(req.view) \cup ObjectPrototypeKeys)
                 => req.foundPublicPort = NullPort

\* C23: a lookup made after startWatch has been called raises no exception,
\* whatever the manifest files hold: the handler does not end in an error, and
\* the lookup returned a port or null.
C23_LookupNeverRaisesAfterStartWatch ==
    (req.pc # "idle" /\ req.matched /\ req.started)
        => /\ ~req.threw /\ ~req.raised
           /\ req.outcome # "error"
           /\ req.foundPublicPort.kind \in {"port", "null"}


(***************************************************************************)
(* Claims about the sanitized directory and the fall-through, under Spec.  *)
(***************************************************************************)

\* C22: whenever a lookup finds the token in the directory, the token matches
\* ^[a-z0-9]+$ and the value found matches ^[0-9]+$, and a request forwarded for a
\* found token is forwarded to a digits-only port.
C22_FoundTokenForwardedToDigitsOnlyPort ==
    (LookedUp /\ req.foundPublicPort.kind # "null")
        => /\ MatchesAliasRegex(req.port)
           /\ MatchesPortRegex(req.foundPublicPort.str)
           /\ (req.pc = "done" /\ req.outcome = "proxy")
                 => MatchesPortRegex(req.mappedPort)


\* C24: a request whose Host header names no proxy token (its hostname is not a
\* non-empty segment, the separator and a configured proxy domain) is handed to the
\* next handler at once, in both handlers and in every watcher state: no directory
\* lookup, no authentication check, no proxy call, no redirect and no error.
C24_NonProxyHostFallsThrough ==
    (req.pc # "idle" /\ ExactTokens(req.host) = {})
        => /\ req.pc = "done"
           /\ req.outcome = "next"
           /\ req.calls = <<Call("next", "")>>
           /\ ~req.threw /\ ~req.raised
           /\ ~req.started /\ req.view = <<>> /\ req.foundPublicPort = NullPort
           /\ ~req.isAuthenticated /\ req.mappedPort = "" /\ req.target = ""

\* C24 witness: before startWatch was ever called, a WebSocket upgrade for
\* 8080.sub.example.com, which is under no proxy domain, went to the next handler.
C24_Witness ==
    /\ ~startWatchCalled /\ watcher = "undefined"
    /\ req.pc = "done" /\ req.kind = "ws" /\ req.host = "8080.sub.example.com"
    /\ ExactTokens(req.host) = {}
    /\ req.outcome = "next" /\ req.calls = <<Call("next", "")>>


(***************************************************************************)
(* Claim about stopping and restarting the watcher, under SpecWatch.       *)
(***************************************************************************)

\* C25: once endWatch has completed (this.watcher is closed) no step changes the
\* tracked set until startWatch is called again, and no startWatch leaves an
\* earlier watcher running beside the one it creates.
C25_EndWatchStopsEventsRestartLeavesNoWatcher ==
    [][/\ (watcher = "closed" /\ watcher' = "closed") => portFiles' = portFiles
       /\ orphans' = 0]_vars

====
